---- MODULE Spec2Model ----
(***************************************************************************)
(* A model of the ALM/PM outer driver (src/src/alm/alm_optimizer.rs) and   *)
(* of the local Lipschitz estimator (src/src/lipschitz_estimator.rs), and  *)
(* of the forward-backward optimizer (src/src/core/fbs/fbs_optimizer.rs).  *)
(*                                                                         *)
(* Number representation.  The program computes in f64.  For the ALM/PM    *)
(* driver and the FBS optimizer the model computes exactly, in integers:   *)
(*   - the penalty c, the multipliers y, the values F1(u), F2(u) and the   *)
(*     infeasibility norms are integers;                                   *)
(*   - the tolerance delta and the factors theta and beta are rationals    *)
(*     [n |-> numerator, d |-> denominator] with d > 0, and a comparison   *)
(*     x <= c * r is evaluated as x * r.d <= c * r.n;                      *)
(*   - the AKKT tolerances (epsilon) are integers in units of 1e-6, so     *)
(*     that 0.1 is 100000 and 1e-6 is 1.                                   *)
(* For the Lipschitz estimator the model computes in f64 itself: every     *)
(* number (the entries of u, epsilon, delta, h, the values of F and the    *)
(* norms) is an f64 value, and every product, sum and difference is        *)
(* rounded to the nearest f64 as the program rounds it.  A norm is carried *)
(* as its square, the f64 sum of the f64 squares of the entries.           *)
(* An Option<T> is a record [some |-> BOOLEAN, v |-> T].                   *)
(***************************************************************************)
EXTENDS Integers, Sequences, FiniteSets, TLC

VARIABLES
    alm_problem,   \* AlmProblem: the dimensions n1, n2 of the optimizer's problem
    alm_cache,     \* AlmCache, borrowed by the optimizer
    opt,           \* the configuration fields of AlmOptimizer
    nbuilds,       \* number of builder and AlmOptimizer::new calls made so far
    nsteps,        \* number of step calls (one per solve call) made on the cache
    last_step,     \* what the most recent step call saw and returned
    prev_step,     \* the same for the step call before it
    solve_ret,     \* what the most recent solve call returned to its caller
    panicked,      \* TRUE once an assert! has aborted the program
    c0_arg,        \* the argument of the last with_initial_penalty call since the last step
    y_init_arg,    \* the same for with_initial_lagrange_multipliers
    lip,           \* LipschitzEstimator: u, workspace, function value, epsilon, delta
    lip_nbuilds,   \* number of with_epsilon / with_delta calls that returned
    lip_ncalls,    \* number of estimate_local_lipschitz calls made so far
    lip_last,      \* what the most recent estimate call saw and returned
    lip_panicked,  \* TRUE once an assert! of the estimator has aborted the program
    epsilon_arg,   \* the argument of the last with_epsilon call
    delta_arg,     \* the argument of the last with_delta call
    fbs,           \* FBSOptimizer: max_iter, max_duration, the engine's tolerance
    fbs_nbuilds,   \* number of with_tolerance / with_max_iter / with_max_duration calls
    fbs_nsolves,   \* number of FBSOptimizer::solve calls made so far
    fbs_last,      \* what the most recent solve call saw, did and reported
    fbs_panicked   \* TRUE once an assert of the FBS optimizer has aborted the program

alm_vars == <<alm_problem, alm_cache, opt, nbuilds, nsteps, last_step, prev_step,
              solve_ret, panicked, c0_arg, y_init_arg>>

lip_vars == <<lip, lip_nbuilds, lip_ncalls, lip_last, lip_panicked,
              epsilon_arg, delta_arg>>

fbs_vars == <<fbs, fbs_nbuilds, fbs_nsolves, fbs_last, fbs_panicked>>

vars == <<alm_vars, lip_vars, fbs_vars>>

----------------------------------------------------------------------------
(* Bounds of the model *)

MaxBuilds == 1       \* builder and AlmOptimizer::new calls per run
MaxSteps == 2        \* step calls per run
MaxSeeds == 2        \* builder calls per run, when only xi is seeded
CRadius == 1         \* the set C is the box [-CRadius, CRadius]^n1
YRadius == 2         \* the set Y is the box [-YRadius, YRadius]^n1
MaxOracle == 2       \* F1(u) and F2(u) take the values {-MaxOracle, 0, 1}
MaxLipBuilds == 2    \* with_epsilon / with_delta calls per run of the estimator
MaxEstimates == 2    \* estimate_local_lipschitz calls per run of the estimator
MaxFbsBuilds == 2    \* builder calls per run of the FBS optimizer
MaxFbsSolves == 2    \* solve calls per run of the FBS optimizer

\* n1 and n2 range over Dimensions; with at most one component the
\* Euclidean norms of the program are integers
Dimensions == {0, 1}

----------------------------------------------------------------------------
(* Helpers *)

None == [some |-> FALSE, v |-> <<>>]
Some(x) == [some |-> TRUE, v |-> x]

Rat(n, d) == [n |-> n, d |-> d]

Abs(x) == IF x < 0 THEN -x ELSE x

Clamp(x, lo, hi) == IF x < lo THEN lo ELSE IF x > hi THEN hi ELSE x

Zeros(n) == [i \in 1..n |-> 0]

Tail1(s) == [i \in 1..(Len(s) - 1) |-> s[i + 1]]

\* all sequences of length n over S
SeqsOf(S, n) == [1..n -> S]

RECURSIVE SumSq(_)
SumSq(v) == IF Len(v) = 0 THEN 0 ELSE v[1] * v[1] + SumSq(Tail1(v))

\* integer square root (exact on perfect squares)
ISqrt(s) == CHOOSE r \in 0..s : r * r <= s /\ (r + 1) * (r + 1) > s

\* matrix_operations::norm2
norm2(v) == ISqrt(SumSq(v))

\* matrix_operations::norm2_squared_diff
norm2_squared_diff(a, b) == SumSq([i \in 1..Len(a) |-> a[i] - b[i]])

----------------------------------------------------------------------------
(* Program constants: the defaults of AlmOptimizer::new *)

DEFAULT_MAX_OUTER_ITERATIONS == 50
DEFAULT_MAX_INNER_ITERATIONS == 5000
DEFAULT_EPSILON_TOLERANCE == 1                  \* 1e-6, in units of 1e-6
DEFAULT_DELTA_TOLERANCE == Rat(1, 10000)        \* 1e-4
DEFAULT_PENALTY_UPDATE_FACTOR == 5
DEFAULT_EPSILON_UPDATE_FACTOR == Rat(1, 10)     \* 0.1
DEFAULT_INFEAS_SUFFICIENT_DECREASE_FACTOR == Rat(1, 10)   \* 0.1
DEFAULT_INITIAL_TOLERANCE == 100000             \* 0.1, in units of 1e-6

\* the literal 1.0 of is_exit_criterion_satisfied
EXIT_F2_LITERAL == 1

\* the initial penalty the cache is constructed with
DEFAULT_INITIAL_PENALTY == 1

----------------------------------------------------------------------------
(* The sets C and Y (boxes) *)

\* Y.project(v): in place, componentwise
ProjectY(v) == [i \in 1..Len(v) |-> Clamp(v[i], -YRadius, YRadius)]

\* c * Proj_C(x / c) for the box C, c # 0: the projection of the rational
\* x / c onto [-CRadius, CRadius], multiplied by c
ScaledProjectC(x, c) == Clamp(x, -(Abs(c) * CRadius), Abs(c) * CRadius)

InC(w) == \A i \in 1..Len(w) : -CRadius <= w[i] /\ w[i] <= CRadius

----------------------------------------------------------------------------
(* AlmCache::new(panoc_cache, n1, n2) followed by AlmOptimizer::new *)

PanocCacheNew == [akkt_tolerance |-> None]

set_akkt_tolerance(panoc, tol) == [panoc EXCEPT !.akkt_tolerance = Some(tol)]

\* PANOCCache::reset keeps the AKKT tolerance
PanocReset(panoc) == panoc

AlmCacheNew(n1, n2) ==
    [ panoc_cache       |-> PanocCacheNew,
      iteration         |-> 0,
      y_plus            |-> IF n1 > 0 THEN Some(Zeros(n1)) ELSE None,
      xi                |-> IF n1 > 0
                            THEN Some(<<DEFAULT_INITIAL_PENALTY>> \o Zeros(n1))
                            ELSE None,
      delta_y_norm      |-> 0,
      delta_y_norm_plus |-> 0,
      f2_norm           |-> 0,
      f2_norm_plus      |-> 0,
      w_alm_aux         |-> IF n1 > 0 THEN Some(Zeros(n1)) ELSE None,
      w_pm              |-> IF n2 > 0 THEN Some(Zeros(n2)) ELSE None ]

AlmProblemNew(n1, n2) ==
    [ n1 |-> n1, n2 |-> n2,
      mapping_f1 |-> (n1 > 0), mapping_f2 |-> (n2 > 0),
      alm_set_c |-> (n1 > 0), alm_set_y |-> (n1 > 0) ]

\* AlmOptimizer::new: the cache's inner tolerance
NewCache(cache) ==
    [cache EXCEPT !.panoc_cache =
        set_akkt_tolerance(cache.panoc_cache, DEFAULT_INITIAL_TOLERANCE)]

\* AlmOptimizer::new: the configuration fields
NewOptimizer ==
    [ max_outer_iterations      |-> DEFAULT_MAX_OUTER_ITERATIONS,
      max_inner_iterations      |-> DEFAULT_MAX_INNER_ITERATIONS,
      max_duration              |-> None,
      epsilon_tolerance         |-> DEFAULT_EPSILON_TOLERANCE,
      delta_tolerance           |-> DEFAULT_DELTA_TOLERANCE,
      penalty_update_factor     |-> DEFAULT_PENALTY_UPDATE_FACTOR,
      epsilon_update_factor     |-> DEFAULT_EPSILON_UPDATE_FACTOR,
      sufficient_decrease_coeff |-> DEFAULT_INFEAS_SUFFICIENT_DECREASE_FACTOR,
      epsilon_inner_initial     |-> DEFAULT_INITIAL_TOLERANCE ]

\* no step call yet
NoStep == [ret |-> "none"]

\* AlmCache::new(panoc_cache, n1, n2), then AlmOptimizer::new on that cache
\* for an (n1, n2) problem
AlmInit(n1, n2) ==
    /\ alm_problem = AlmProblemNew(n1, n2)
    /\ alm_cache = NewCache(AlmCacheNew(n1, n2))
    /\ opt = NewOptimizer
    /\ nbuilds = 0
    /\ nsteps = 0
    /\ last_step = NoStep
    /\ prev_step = NoStep
    /\ solve_ret = "none"
    /\ panicked = FALSE
    /\ c0_arg = None
    /\ y_init_arg = None

----------------------------------------------------------------------------
(* The numbers of the Lipschitz estimator are f64 values.  A number is a   *)
(* record [neg, mag, e] that stands for (-1)^neg * mag * 2^e: mag is a     *)
(* natural number in base 1024, least significant limb first and without   *)
(* leading zero limbs, and e is the binary exponent.  The form is unique:  *)
(* zero is [FALSE, <<>>, 0] and the magnitude of any other number is odd.  *)
(* The Exact operators compute the sum, the difference and the product of  *)
(* two such numbers as they are; RoundF64 rounds such a number to the      *)
(* nearest f64 (53 significant bits, exponents down to 2^-1074, ties to    *)
(* the even mantissa), which is what every f64 operation of the program    *)
(* does with its exact result.  Overflow to infinity and NaN are not       *)
(* represented: the numbers of the model stay far below 2^1024.  The two   *)
(* zeros of f64 are one number here; they compare equal in the program.    *)

\* the element of a set of one element.  Only({e : v \in {x}}) is e for
\* the value v of x: what a let binding of the program does, the value is
\* computed once and then used
Only(S) == CHOOSE r \in S : TRUE

\* the i-th limb of a, 0 beyond its length
Limb(a, i) == IF 1 <= i /\ i <= Len(a) THEN a[i] ELSE 0

\* the limbs a[1], ..., a[n] without the leading zero limbs
NatTrim(a, n) ==
    Only({ SubSeq(v, 1, CHOOSE m \in 0..n :
                           /\ m = 0 \/ v[m] # 0
                           /\ \A k \in (m + 1)..n : v[k] = 0)
           : v \in {SubSeq(a, 1, n)} })

\* the limbs of the natural number n
RECURSIVE NatOf(_)
NatOf(n) == IF n = 0 THEN <<>> ELSE <<n % 1024>> \o NatOf(n \div 1024)

NatLength(a, b) == IF Len(a) > Len(b) THEN Len(a) ELSE Len(b)

\* a + b: a carry enters place i when a place below it overflows and every
\* place in between is full
NatAdd(a, b) ==
    LET s(i) == Limb(a, i) + Limb(b, i)
        carry(i) ==
            \E j \in 1..(i - 1) :
                s(j) >= 1024 /\ \A k \in (j + 1)..(i - 1) : s(k) = 1023
    IN  NatTrim([i \in 1..(NatLength(a, b) + 1) |->
                    (s(i) + IF carry(i) THEN 1 ELSE 0) % 1024],
                NatLength(a, b) + 1)

\* a - b for a >= b: place i lends when a place below it falls short and
\* every place in between is empty
NatSub(a, b) ==
    LET d(i) == Limb(a, i) - Limb(b, i)
        borrow(i) ==
            \E j \in 1..(i - 1) :
                d(j) < 0 /\ \A k \in (j + 1)..(i - 1) : d(k) = 0
    IN  NatTrim([i \in 1..NatLength(a, b) |->
                    (d(i) - IF borrow(i) THEN 1 ELSE 0) % 1024],
                NatLength(a, b))

NatLess(a, b) ==
    IF Len(a) # Len(b)
    THEN Len(a) < Len(b)
    ELSE \E i \in 1..Len(a) :
            /\ a[i] < b[i]
            /\ \A j \in (i + 1)..Len(a) : a[j] = b[j]

\* sum of a[i] * b[k - i + 1] over the i from i0 on
RECURSIVE ConvAt(_, _, _, _)
ConvAt(a, b, k, i0) ==
    IF i0 > Len(a) \/ i0 > k
    THEN 0
    ELSE a[i0] * Limb(b, k - i0 + 1) + ConvAt(a, b, k, i0 + 1)

\* a * b, for a and b of at most 1000 limbs: the sums c[k] of the limb
\* products of place k are below 2^30, and the product is the sum of the
\* three numbers that the three base-1024 digits of the c[k] make up
NatMul(a, b) ==
    IF Len(a) = 0 \/ Len(b) = 0
    THEN <<>>
    ELSE Only({ NatAdd(NatAdd([k \in 1..Len(c) |-> c[k] % 1024],
                              <<0>> \o [k \in 1..Len(c) |->
                                           (c[k] \div 1024) % 1024]),
                       <<0, 0>> \o [k \in 1..Len(c) |-> c[k] \div 1048576])
                : c \in {SubSeq([k \in 1..(Len(a) + Len(b) - 1) |->
                                    ConvAt(a, b, k, 1)],
                                1, Len(a) + Len(b) - 1)} })

\* a * 2^s
NatShl(a, s) ==
    LET j == s \div 10
        t == s % 10
    IN  IF Len(a) = 0
        THEN <<>>
        ELSE NatTrim([i \in 1..(Len(a) + j + 1) |->
                        ((Limb(a, i - j) * 2^t) % 1024)
                        + ((Limb(a, i - j - 1) * 2^t) \div 1024)],
                     Len(a) + j + 1)

\* a divided by 2^s, the remainder dropped
NatShr(a, s) ==
    LET j == s \div 10
        t == s % 10
    IN  IF Len(a) <= j
        THEN <<>>
        ELSE NatTrim([i \in 1..(Len(a) - j) |->
                        (Limb(a, i + j) \div 2^t)
                        + ((Limb(a, i + j + 1) % 2^t) * 2^(10 - t))],
                     Len(a) - j)

\* a divided by the integer d, 0 < d <= 2^20: the quotient, with leading
\* zero limbs, and the remainder
RECURSIVE NatDiv(_, _)
NatDiv(a, d) ==
    IF Len(a) = 0
    THEN [q |-> <<>>, r |-> 0]
    ELSE Only({ [q |-> <<(hi.r * 1024 + a[1]) \div d>> \o hi.q,
                 r |-> (hi.r * 1024 + a[1]) % d]
                : hi \in {NatDiv(Tail(a), d)} })

\* the number of bits of a: 2^(BitLength(a) - 1) <= a < 2^BitLength(a)
BitLength(a) ==
    IF Len(a) = 0
    THEN 0
    ELSE 10 * (Len(a) - 1)
         + (CHOOSE b \in 1..10 : 2^(b - 1) <= a[Len(a)] /\ a[Len(a)] < 2^b)

\* the number of times 2 divides a, for a > 0
TrailingZeros(a) ==
    LET j == CHOOSE i \in 1..Len(a) : a[i] # 0 /\ \A k \in 1..(i - 1) : a[k] = 0
        t == CHOOSE b \in 0..9 : a[j] % 2^b = 0 /\ a[j] % 2^(b + 1) # 0
    IN  10 * (j - 1) + t

\* the unique form of (-1)^neg * mag * 2^e
F64(neg, mag, e) ==
    Only({ IF Len(m) = 0
           THEN [neg |-> FALSE, mag |-> <<>>, e |-> 0]
           ELSE Only({ [neg |-> neg, mag |-> NatShr(m, z), e |-> e + z]
                       : z \in {TrailingZeros(m)} })
           : m \in {mag} })

\* the number n * 2^e for an integer n: Exact(3, 0) is 3.0, Exact(9, -1) is
\* 4.5 and Exact(1, 62) is 2^62
Exact(n, e) == F64(n < 0, NatOf(Abs(n)), e)

AbsF64(x) == [x EXCEPT !.neg = FALSE]

NegF64(x) ==
    Only({ IF Len(v.mag) = 0 THEN v ELSE [v EXCEPT !.neg = ~v.neg]
           : v \in {x} })

\* the sum of x and y as it is (before rounding)
ExactAdd(x, y) ==
    Only({ Only({ Only({ IF v.neg = w.neg
                         THEN F64(v.neg, NatAdd(a, b), e)
                         ELSE IF NatLess(a, b)
                              THEN F64(w.neg, NatSub(b, a), e)
                              ELSE F64(v.neg, NatSub(a, b), e)
                         : a \in {NatShl(v.mag, v.e - e)},
                           b \in {NatShl(w.mag, w.e - e)} })
                  : e \in {IF v.e < w.e THEN v.e ELSE w.e} })
           : v \in {x}, w \in {y} })

ExactSub(x, y) == ExactAdd(x, NegF64(y))

ExactMul(x, y) ==
    Only({ F64(v.neg # w.neg, NatMul(v.mag, w.mag), v.e + w.e)
           : v \in {x}, w \in {y} })

\* the exponent above the leading bit of x # 0: |x| < 2^TopPlace(x)
TopPlace(x) == Only({ v.e + BitLength(v.mag) : v \in {x} })

\* x < y: by the signs, then by the leading bits, and by the sign of the
\* difference when both agree
LessF64(x, y) ==
    Only({ IF v.neg # w.neg THEN v.neg
           ELSE IF Len(v.mag) = 0 THEN Len(w.mag) > 0
           ELSE IF Len(w.mag) = 0 THEN FALSE
           ELSE IF TopPlace(v) # TopPlace(w)
                THEN (TopPlace(v) < TopPlace(w)) # v.neg
                ELSE ExactSub(v, w).neg
           : v \in {x}, w \in {y} })

\* x > 0.0
PositiveF64(x) == Only({ Len(v.mag) > 0 /\ ~v.neg : v \in {x} })

\* the exponent of the last place of the f64 numbers around x # 0: 52
\* places below the leading bit, but not below 2^-1074
LastPlace(x) ==
    Only({ IF q < -1074 THEN -1074 ELSE q : q \in {TopPlace(x) - 53} })

\* mutant: the exact result is cut off after the last place instead of
\* rounded to the nearest f64
RoundF64TowardZero(x) ==
    Only({ Only({ IF Len(v.mag) = 0 \/ v.e >= p
                  THEN v
                  ELSE F64(v.neg, NatShr(v.mag, p - v.e), p)
                  : p \in {LastPlace(v)} })
           : v \in {x} })

\* the f64 nearest to x, the one with the even mantissa when two are
\* equally near
RoundF64(x) ==
    Only({ Only({ IF Len(v.mag) = 0 \/ v.e >= p
                  THEN v
                  ELSE Only({ Only({ F64(v.neg,
                                         IF \/ NatLess(half, rest)
                                            \/ /\ rest = half
                                               /\ Limb(kept, 1) % 2 = 1
                                         THEN NatAdd(kept, <<1>>)
                                         ELSE kept,
                                         p)
                                     : rest \in {NatSub(v.mag,
                                                        NatShl(kept, p - v.e))},
                                       half \in {NatShl(<<1>>, p - v.e - 1)} })
                              : kept \in {NatShr(v.mag, p - v.e)} })
                  : p \in {LastPlace(v)} })
           : v \in {x} })

\* the f64 sum, difference and product
AddF64(x, y) == RoundF64(ExactAdd(x, y))
SubF64(x, y) == RoundF64(ExactSub(x, y))
MulF64(x, y) == RoundF64(ExactMul(x, y))

\* the f64 that a decimal literal of value n / d denotes (n >= 0,
\* 0 < d <= 2^20, n / d >= 2^-40): the f64 nearest to n / d.  The quotient
\* n * 2^100 / d has more than 53 bits, and a bit below it tells whether
\* the division left a remainder.
LiteralF64(n, d) ==
    Only({ RoundF64(F64(FALSE,
                        NatAdd(NatShl(NatTrim(qr.q, Len(qr.q)), 1),
                               IF qr.r = 0 THEN <<>> ELSE <<1>>),
                        -101))
           : qr \in {NatDiv(NatShl(NatOf(n), 100), d)} })

ZerosF64(n) == [i \in 1..n |-> Exact(0, 0)]

\* the square of matrix_operations::norm2(v): the f64 sum, taken from left
\* to right, of the f64 squares of the entries
RECURSIVE Norm2Sq(_)
Norm2Sq(v) ==
    Only({ IF Len(w) = 0
           THEN Exact(0, 0)
           ELSE AddF64(Norm2Sq(SubSeq(w, 1, Len(w) - 1)),
                       MulF64(w[Len(w)], w[Len(w)]))
           : w \in {v} })

\* the dimension of the estimator's point u (the example's u has 3 entries)
LipDim == 3

\* the function F of the estimator's example: g = (3 u[0], 2 u[1], 4.5)
F(u) == <<MulF64(Exact(3, 0), u[1]), MulF64(Exact(2, 0), u[2]), Exact(9, -1)>>

\* LipschitzEstimator::new(u_, f_, function_value_): the caller's buffer
\* function_value_ is kept as the caller filled it
LipschitzEstimatorNew(u, function_value) ==
    [u_decision_var |-> u,
     workspace |-> ZerosF64(Len(u)),
     function_value_at_u |-> function_value,
     epsilon_lip |-> LiteralF64(1, 1000000),
     delta_lip |-> LiteralF64(1, 1000000)]

NoEstimate == [ret |-> [kind |-> "none"]]

\* the estimator as constructed on the point u and the buffer
LipInit(u, function_value) ==
    /\ lip = LipschitzEstimatorNew(u, function_value)
    /\ lip_nbuilds = 0
    /\ lip_ncalls = 0
    /\ lip_last = NoEstimate
    /\ lip_panicked = FALSE
    /\ epsilon_arg = None
    /\ delta_arg = None

MAX_ITER == 100

\* FBSOptimizer::new on an engine whose cache holds the given tolerance
FBSOptimizerNew(tolerance) ==
    [max_iter |-> MAX_ITER, max_duration |-> None, tolerance |-> tolerance]

NoSolve == [done |-> FALSE]

\* the FBS optimizer as constructed; the engine's tolerance is 1e-6
FbsInit ==
    /\ fbs = FBSOptimizerNew(1)
    /\ fbs_nbuilds = 0
    /\ fbs_nsolves = 0
    /\ fbs_last = NoSolve
    /\ fbs_panicked = FALSE

Init ==
    /\ \E n1 \in Dimensions, n2 \in Dimensions : AlmInit(n1, n2)
    /\ LipInit(ZerosF64(LipDim), ZerosF64(LipDim))
    /\ FbsInit

----------------------------------------------------------------------------
(* The inputs the builders are called with *)

OuterIterationValues == {2}
InnerIterationValues == {100}
DurationValues == {1}
DeltaValues == {Rat(2, 1)}
EpsilonValues == {1000000}                       \* 1.0
\* a penalty of 0 is left out: y / c is then not a finite number
PenaltyFactorValues == {2, -1}
InnerFactorValues == {Rat(-1, 1)}                \* -1.0
DecreaseCoeffValues == {Rat(1, 2), Rat(-1, 1)}   \* 0.5 and -1.0
InitialToleranceValues == {10000}                \* 0.01
\* a penalty outside [-YRadius, YRadius], and a negative one
InitialPenaltyValues == {YRadius + 1, -1}
YInitValues == {<<>>, <<1>>, <<YRadius + 1>>}

(* The values the oracles return in one step: which oracle fails, if any   *)
(* (the inner solve stands for the cost and gradient oracles), F1(u) and   *)
(* F2(u) at the u the inner solver returned.                               *)
OracleValues == {-MaxOracle, 0, 1}

\* update_lagrange_multipliers calls F1: n1 is not 0, and F1, C and the
\* three buffers of the cache are all present
CallsF1(cache, prob) ==
    /\ prob.n1 # 0
    /\ prob.mapping_f1 /\ cache.w_alm_aux.some /\ cache.y_plus.some
    /\ cache.xi.some /\ prob.alm_set_c

\* compute_pm_infeasibility calls F2: F2 and the buffer w_pm are present
CallsF2(cache, prob) == prob.mapping_f2 /\ cache.w_pm.some

\* an oracle that is not called, or fails, returns no value: modelled as 0
OracleOutcomes(cache, prob) ==
    LET all == [ fail : {"none", "inner"}
                        \cup (IF CallsF1(cache, prob) THEN {"f1"} ELSE {})
                        \cup (IF CallsF2(cache, prob) THEN {"f2"} ELSE {}),
                 w  : SeqsOf(OracleValues, prob.n1),
                 f2 : SeqsOf(OracleValues, prob.n2) ]
    IN  { x \in all :
            /\ (x.fail \in {"inner", "f1"} \/ ~CallsF1(cache, prob))
                  => x.w = Zeros(prob.n1)
            /\ (x.fail # "none" \/ ~CallsF2(cache, prob))
                  => x.f2 = Zeros(prob.n2) }

----------------------------------------------------------------------------
(* Builders *)

\* a builder takes the optimizer by value and returns it; the code puts no
\* condition on when it is called, before a solve or after one.  The calls
\* of the builders and of AlmOptimizer::new on the used cache are counted
\* together.
CanBuildUpTo(limit) == ~panicked /\ nbuilds < limit

CanBuild == CanBuildUpTo(MaxBuilds)

\* a builder that seeds xi returns, with its argument recorded
Seeded(newCache, c0, y_init) ==
    /\ opt' = opt
    /\ alm_cache' = newCache
    /\ nbuilds' = nbuilds + 1
    /\ c0_arg' = c0
    /\ y_init_arg' = y_init
    /\ UNCHANGED <<alm_problem, nsteps, last_step, prev_step, solve_ret,
                   panicked>>
    /\ UNCHANGED lip_vars
    /\ UNCHANGED fbs_vars

Built(newOpt, newCache) ==
    /\ opt' = newOpt
    /\ alm_cache' = newCache
    /\ nbuilds' = nbuilds + 1
    /\ UNCHANGED <<alm_problem, nsteps, last_step, prev_step, solve_ret,
                   panicked, c0_arg, y_init_arg>>
    /\ UNCHANGED lip_vars
    /\ UNCHANGED fbs_vars

with_max_outer_iterations ==
    /\ CanBuild
    /\ \E v \in OuterIterationValues :
          Built([opt EXCEPT !.max_outer_iterations = v], alm_cache)

with_max_inner_iterations ==
    /\ CanBuild
    /\ \E v \in InnerIterationValues :
          Built([opt EXCEPT !.max_inner_iterations = v], alm_cache)

with_max_duration ==
    /\ CanBuild
    /\ \E v \in DurationValues :
          Built([opt EXCEPT !.max_duration = Some(v)], alm_cache)

with_delta_tolerance ==
    /\ CanBuild
    /\ \E v \in DeltaValues :
          Built([opt EXCEPT !.delta_tolerance = v], alm_cache)

with_epsilon_tolerance ==
    /\ CanBuild
    /\ \E v \in EpsilonValues :
          Built([opt EXCEPT !.epsilon_tolerance = v], alm_cache)

with_penalty_update_factor ==
    /\ CanBuild
    /\ \E v \in PenaltyFactorValues :
          Built([opt EXCEPT !.penalty_update_factor = v], alm_cache)

with_inner_tolerance_update_factor ==
    /\ CanBuild
    /\ \E v \in InnerFactorValues :
          Built([opt EXCEPT !.epsilon_update_factor = v], alm_cache)

with_sufficient_decrease_coefficient ==
    /\ CanBuild
    /\ \E v \in DecreaseCoeffValues :
          Built([opt EXCEPT !.sufficient_decrease_coeff = v], alm_cache)

with_initial_inner_tolerance ==
    /\ CanBuild
    /\ \E v \in InitialToleranceValues :
          Built([opt EXCEPT !.epsilon_inner_initial = v], alm_cache)

\* xi[1..].copy_from_slice(y_init), for a slice of the length of xi[1..]
SetMultipliers(cache, y_init) ==
    IF cache.xi.some
    THEN [cache EXCEPT !.xi = Some(<<cache.xi.v[1]>> \o y_init)]
    ELSE cache

\* copy_from_slice panics when the two slices differ in length
CanCopy(cache, y_init) ==
    cache.xi.some => Len(cache.xi.v) - 1 = Len(y_init)

\* with_initial_lagrange_multipliers panics: the cache is left as it was
SeedPanic(y_init) ==
    /\ panicked' = TRUE
    /\ y_init_arg' = Some(y_init)
    /\ UNCHANGED <<alm_problem, alm_cache, opt, nbuilds, nsteps,
                   last_step, prev_step, solve_ret, c0_arg>>
    /\ UNCHANGED lip_vars
    /\ UNCHANGED fbs_vars

\* mutant: the length is not checked, and a slice of the wrong length is
\* ignored
WithInitialLagrangeMultipliersUnchecked(limit) ==
    /\ CanBuildUpTo(limit)
    /\ \E y_init \in YInitValues :
          IF Len(y_init) = alm_problem.n1 /\ CanCopy(alm_cache, y_init)
          THEN Seeded(SetMultipliers(alm_cache, y_init), c0_arg, Some(y_init))
          ELSE Seeded(alm_cache, c0_arg, Some(y_init))

\* assert!(y_init.len() == n1), then the copy into xi[1..] of the cache
WithInitialLagrangeMultipliers(limit) ==
    /\ CanBuildUpTo(limit)
    /\ \E y_init \in YInitValues :
          IF Len(y_init) = alm_problem.n1 /\ CanCopy(alm_cache, y_init)
          THEN Seeded(SetMultipliers(alm_cache, y_init), c0_arg, Some(y_init))
          ELSE SeedPanic(y_init)

with_initial_lagrange_multipliers == WithInitialLagrangeMultipliers(MaxBuilds)

\* mutant: the whole of xi is rewritten, the multipliers with zeros
SetPenaltyClearing(cache, c0) ==
    IF cache.xi.some
    THEN [cache EXCEPT !.xi = Some(<<c0>> \o Zeros(Len(cache.xi.v) - 1))]
    ELSE cache

\* xi[0] = c0
SetPenalty(cache, c0) ==
    IF cache.xi.some
    THEN [cache EXCEPT !.xi = Some(<<c0>> \o Tail1(cache.xi.v))]
    ELSE cache

WithInitialPenalty(limit) ==
    /\ CanBuildUpTo(limit)
    /\ \E c0 \in InitialPenaltyValues :
          Seeded(SetPenalty(alm_cache, c0), Some(c0), y_init_arg)

with_initial_penalty == WithInitialPenalty(MaxBuilds)

----------------------------------------------------------------------------
(* The private methods of AlmOptimizer, as functions of the cache *)

compute_alm_infeasibility(cache) ==
    IF cache.y_plus.some /\ cache.xi.some
    THEN [cache EXCEPT !.delta_y_norm_plus =
             ISqrt(norm2_squared_diff(cache.y_plus.v, Tail1(cache.xi.v)))]
    ELSE cache

\* f2v is F2(u); the failure of F2 is handled in StepRun
compute_pm_infeasibility(cache, prob, f2v) ==
    IF CallsF2(cache, prob)
    THEN [cache EXCEPT !.w_pm = Some(f2v), !.f2_norm_plus = norm2(f2v)]
    ELSE cache

\* mutant: step #4 adds the projection instead of subtracting it
update_lagrange_multipliers_sign(cache, prob, w) ==
    IF ~CallsF1(cache, prob)
    THEN cache
    ELSE LET y == Tail1(cache.xi.v)
             c == cache.xi.v[1]
             s2 == [i \in 1..Len(y) |-> c * w[i] + y[i]]
             s3 == [i \in 1..Len(y) |-> ScaledProjectC(s2[i], c)]
             s4 == [i \in 1..Len(y) |-> y[i] + c * w[i] + s3[i]]
         IN  [cache EXCEPT !.w_alm_aux = Some(w), !.y_plus = Some(s4)]

(* w is F1(u); the failure of F1 is handled in StepRun.                    *)
(*   #2  y_plus := w + y/c     is held multiplied by c:  c*w + y           *)
(*   #3  y_plus := Proj_C(y_plus)   likewise:  c * Proj_C((c*w + y) / c)   *)
(*   #4  y_plus := y + c*(w - y_plus)  =  y + c*w - c*Proj_C(...)          *)
update_lagrange_multipliers(cache, prob, w) ==
    IF ~CallsF1(cache, prob)
    THEN cache
    ELSE LET y == Tail1(cache.xi.v)
             c == cache.xi.v[1]
             s2 == [i \in 1..Len(y) |-> c * w[i] + y[i]]
             s3 == [i \in 1..Len(y) |-> ScaledProjectC(s2[i], c)]
             s4 == [i \in 1..Len(y) |-> y[i] + c * w[i] - s3[i]]
         IN  [cache EXCEPT !.w_alm_aux = Some(w), !.y_plus = Some(s4)]

\* mutant: the whole of xi is projected, the penalty included
project_on_set_y_whole(cache, prob) ==
    IF prob.alm_set_y /\ cache.xi.some
    THEN [cache EXCEPT !.xi = Some(ProjectY(cache.xi.v))]
    ELSE cache

project_on_set_y(cache, prob) ==
    IF prob.alm_set_y /\ cache.xi.some
    THEN [cache EXCEPT !.xi =
             Some(<<cache.xi.v[1]>> \o ProjectY(Tail1(cache.xi.v)))]
    ELSE cache

\* mutant: without xi, criterion 1 is taken to fail
is_exit_criterion_satisfied_needs_xi(cache, o) ==
    LET criterion_1 ==
            IF cache.xi.some
            THEN cache.delta_y_norm_plus * o.delta_tolerance.d
                    <= cache.xi.v[1] * o.delta_tolerance.n
            ELSE FALSE
        criterion_2 == cache.f2_norm_plus <= EXIT_F2_LITERAL
    IN  criterion_1 /\ criterion_2

is_exit_criterion_satisfied(cache, o) ==
    LET criterion_1 ==
            IF cache.xi.some
            THEN cache.delta_y_norm_plus * o.delta_tolerance.d
                    <= cache.xi.v[1] * o.delta_tolerance.n
            ELSE TRUE
        criterion_2 == cache.f2_norm_plus <= EXIT_F2_LITERAL
    IN  criterion_1 /\ criterion_2

\* mutant: the sufficient-decrease tests are dropped
is_penalty_stall_criterion_first_only(cache, o) ==
    cache.iteration = 0

\* mutant: the test of iteration == 0 is dropped
is_penalty_stall_criterion_decrease_only(cache, o) ==
    \/ cache.delta_y_norm_plus * o.sufficient_decrease_coeff.d
          < o.sufficient_decrease_coeff.n * cache.delta_y_norm
    \/ cache.f2_norm_plus * o.sufficient_decrease_coeff.d
          < o.sufficient_decrease_coeff.n * cache.f2_norm

is_penalty_stall_criterion(cache, o) ==
    \/ cache.iteration = 0
    \/ cache.delta_y_norm_plus * o.sufficient_decrease_coeff.d
          < o.sufficient_decrease_coeff.n * cache.delta_y_norm
    \/ cache.f2_norm_plus * o.sufficient_decrease_coeff.d
          < o.sufficient_decrease_coeff.n * cache.f2_norm

\* mutant: the whole of xi is multiplied, the multipliers included
update_penalty_whole(cache, o) ==
    IF cache.xi.some
    THEN [cache EXCEPT !.xi =
             Some([i \in 1..Len(cache.xi.v) |->
                      cache.xi.v[i] * o.penalty_update_factor])]
    ELSE cache

\* mutant: the factor is added instead of multiplied
update_penalty_additive(cache, o) ==
    IF cache.xi.some
    THEN [cache EXCEPT !.xi =
             Some(<<cache.xi.v[1] + o.penalty_update_factor>>
                     \o Tail1(cache.xi.v))]
    ELSE cache

update_penalty(cache, o) ==
    IF cache.xi.some
    THEN [cache EXCEPT !.xi =
             Some(<<cache.xi.v[1] * o.penalty_update_factor>>
                     \o Tail1(cache.xi.v))]
    ELSE cache

\* f64::max(akkt_tolerance * beta, epsilon_tolerance), in units of 1e-6
update_inner_akkt_tolerance(cache, o) ==
    LET eps == cache.panoc_cache.akkt_tolerance.v
        beta == o.epsilon_update_factor
        next == IF eps * beta.n >= o.epsilon_tolerance * beta.d
                THEN (eps * beta.n) \div beta.d
                ELSE o.epsilon_tolerance
    IN  [cache EXCEPT !.panoc_cache = set_akkt_tolerance(cache.panoc_cache, next)]

\* mutant: the iteration counter is not advanced
final_cache_update_no_count(cache) ==
    [cache EXCEPT !.delta_y_norm = cache.delta_y_norm_plus,
                  !.f2_norm_plus = cache.f2_norm,
                  !.panoc_cache = PanocReset(cache.panoc_cache)]

\* mutant: the ALM assignment is reversed, like the PM one
final_cache_update_reversed(cache) ==
    [cache EXCEPT !.iteration = cache.iteration + 1,
                  !.delta_y_norm_plus = cache.delta_y_norm,
                  !.f2_norm_plus = cache.f2_norm,
                  !.panoc_cache = PanocReset(cache.panoc_cache)]

final_cache_update(cache) ==
    [cache EXCEPT !.iteration = cache.iteration + 1,
                  !.delta_y_norm = cache.delta_y_norm_plus,
                  !.f2_norm_plus = cache.f2_norm,
                  !.panoc_cache = PanocReset(cache.panoc_cache)]

(* step: the cache it leaves, what it returns ("CONTINUE" is Ok(true),     *)
(* "STOP" is Ok(false), "ERR" is Err), and the cache as it was when the    *)
(* exit criterion was tested (or when the failing oracle returned).        *)
StepRun(cache, o, prob, orc) ==
    LET c1 == project_on_set_y(cache, prob)
        c2 == update_lagrange_multipliers(c1, prob, orc.w)
        c3 == compute_pm_infeasibility(c2, prob, orc.f2)
        c4 == compute_alm_infeasibility(c3)
        c5 == IF ~is_penalty_stall_criterion(c4, o)
              THEN update_penalty(c4, o) ELSE c4
        c6 == update_inner_akkt_tolerance(c5, o)
        c7 == final_cache_update(c6)
    IN  IF orc.fail = "inner" THEN [cache |-> c1, ret |-> "ERR", test |-> c1]
        ELSE IF orc.fail = "f1" THEN [cache |-> c1, ret |-> "ERR", test |-> c1]
        ELSE IF orc.fail = "f2" THEN [cache |-> c2, ret |-> "ERR", test |-> c2]
        ELSE IF is_exit_criterion_satisfied(c4, o)
             THEN [cache |-> c4, ret |-> "STOP", test |-> c4]
             ELSE [cache |-> c7, ret |-> "CONTINUE", test |-> c4]

CanStep == ~panicked /\ nsteps < MaxSteps

(* A step call returns.  last_step records the step: the problem and the    *)
(* configuration it ran with, the cache it started from (entry), the cache *)
(* at its termination test (test) and the cache it left (exit); chained    *)
(* says that it started from the optimizer exactly as the step before left *)
(* it, as a second step of one solve loop does.                            *)
Stepped(r, orc) ==
    /\ alm_cache' = r.cache
    /\ nsteps' = nsteps + 1
    /\ prev_step' = IF last_step.ret = "none" THEN NoStep
                     ELSE [ret |-> last_step.ret, xi |-> last_step.entry.xi,
                           delta_y_norm_plus |-> last_step.test.delta_y_norm_plus,
                           f2_norm_plus |-> last_step.test.f2_norm_plus]
    /\ last_step' = [ret |-> r.ret, fail |-> orc.fail, prob |-> alm_problem,
                     opt |-> opt, entry |-> alm_cache, test |-> r.test,
                     exit |-> r.cache,
                     chained |-> /\ last_step.ret # "none"
                                 /\ last_step.exit = alm_cache
                                 /\ last_step.opt = opt
                                 /\ last_step.prob = alm_problem]
    /\ c0_arg' = None
    /\ y_init_arg' = None
    /\ UNCHANGED <<alm_problem, opt, nbuilds, panicked>>
    /\ UNCHANGED lip_vars
    /\ UNCHANGED fbs_vars

\* what solve returns, given what its step returned
SolveResult(stepRet) == "Ok"

(* solve: one call of step, whose result is dropped.  step is private and *)
(* solve is its only caller, so the step calls of a run are the solve      *)
(* calls of that run.                                                      *)
solve ==
    /\ CanStep
    /\ \E orc \in OracleOutcomes(alm_cache, alm_problem) :
          LET r == StepRun(alm_cache, opt, alm_problem, orc)
          IN  /\ Stepped(r, orc)
              /\ solve_ret' = SolveResult(r.ret)

(* AlmOptimizer::new on the cache as the optimizer before left it: the     *)
(* cache is borrowed, so a program builds a second optimizer on it once    *)
(* the first is dropped.  new takes any problem, checks nothing, resets    *)
(* the configuration to the defaults and writes the inner tolerance of     *)
(* the cache; every other field of the cache is kept.                      *)
AlmOptimizerNew ==
    /\ CanBuild
    /\ \E n1 \in Dimensions, n2 \in Dimensions :
          alm_problem' = AlmProblemNew(n1, n2)
    /\ alm_cache' = NewCache(alm_cache)
    /\ opt' = NewOptimizer
    /\ nbuilds' = nbuilds + 1
    /\ UNCHANGED <<nsteps, last_step, prev_step, solve_ret, panicked,
                   c0_arg, y_init_arg>>
    /\ UNCHANGED lip_vars
    /\ UNCHANGED fbs_vars

Next ==
    \/ AlmOptimizerNew
    \/ with_max_outer_iterations
    \/ with_max_inner_iterations
    \/ with_max_duration
    \/ with_delta_tolerance
    \/ with_epsilon_tolerance
    \/ with_penalty_update_factor
    \/ with_inner_tolerance_update_factor
    \/ with_sufficient_decrease_coefficient
    \/ with_initial_inner_tolerance
    \/ with_initial_lagrange_multipliers
    \/ with_initial_penalty
    \/ solve

Spec == Init /\ [][Next]_vars

(* The optimizer with only xi seeded before solving: the two builders that *)
(* write xi, in any order and number up to MaxSeeds, then solve calls.     *)
NextSeed ==
    \/ WithInitialLagrangeMultipliers(MaxSeeds)
    \/ WithInitialPenalty(MaxSeeds)
    \/ solve

SpecSeed == Init /\ [][NextSeed]_vars

----------------------------------------------------------------------------
(* The local Lipschitz estimator *)

\* -2^62 * 1e-6, about -4.6e12
LargeNegative == NegF64(MulF64(Exact(1, 62), LiteralF64(1, 1000000)))

\* the points the estimator is constructed on: the point of the example,
\* the origin, a point with negative entries, a point with an entry of
\* large magnitude and the entry -(2^53 + 2) of odd mantissa, and a point
\* (2^40, -2^53, -(2^53 + 4)) whose negative entries have the next f64
\* above them 1 and 2 away
LipPoints ==
    { <<Exact(1, 0), Exact(2, 0), Exact(3, 0)>>,
      ZerosF64(LipDim),
      <<Exact(-2, 0), Exact(-2, 0), Exact(3, 0)>>,
      <<Exact(3, 0), ExactSub(Exact(-1, 53), Exact(2, 0)), LargeNegative>>,
      <<Exact(1, 40), Exact(-1, 53),
        ExactSub(Exact(-1, 53), Exact(4, 0))>> }
\* the buffers the caller passes for the function value: zeros, or 7, 8, 9
FunctionValueBuffers ==
    {ZerosF64(LipDim), <<Exact(7, 0), Exact(8, 0), Exact(9, 0)>>}
\* 0, -1, 1e-4
LipEpsilonValues == {Exact(0, 0), Exact(-1, 0), LiteralF64(1, 10000)}
\* 0, -1e-6, 0.75, 1.0 and 2^-600, whose square is below the least
\* positive f64
LipDeltaValues ==
    {Exact(0, 0), NegF64(LiteralF64(1, 1000000)),
     Exact(3, -2), Exact(1, 0), Exact(1, -600)}
\* the status F returns: 0 for success, non-zero for failure
StatusValues == {0, 1}

\* epsilon_lip * s > delta_lip, for an entry s of u
ProductExceeds(epsilon, s, delta) == LessF64(delta, MulF64(epsilon, s))

\* h = max{epsilon * u, delta}, as the program selects it
Perturbation(l) ==
    [i \in 1..Len(l.u_decision_var) |->
        IF ProductExceeds(l.epsilon_lip, l.u_decision_var[i], l.delta_lip)
        THEN MulF64(l.epsilon_lip, l.u_decision_var[i])
        ELSE l.delta_lip]

\* the rest of estimate_local_lipschitz, given h and the value of F that
\* is stored as the function value at u
Estimated(l, h, fu) ==
    LET u == l.u_decision_var
        n == Len(l.u_decision_var)
    IN  Only({ Only({ Only({ Only({
           [lip |-> [l EXCEPT !.u_decision_var = u_plus_h,
                              !.workspace = diff,
                              !.function_value_at_u = fv],
            h |-> hv,
            ret |-> [kind |-> "f64",
                     norm_workspace_sq |-> Norm2Sq(diff),
                     norm_h_sq |-> Norm2Sq(hv)]]
           : diff \in {SubSeq([i \in 1..n |-> SubF64(fuh[i], fv[i])], 1, n)} })
           : fuh \in {F(u_plus_h)} })
           : u_plus_h \in {SubSeq([i \in 1..n |-> AddF64(u[i], hv[i])], 1, n)} })
           : hv \in {SubSeq(h, 1, n)}, fv \in {fu} })

CanBuildLip == ~lip_panicked /\ lip_nbuilds < MaxLipBuilds

\* a builder of the estimator returns
LipBuilt(newLip) ==
    /\ lip' = newLip
    /\ lip_nbuilds' = lip_nbuilds + 1
    /\ UNCHANGED <<lip_ncalls, lip_last, lip_panicked>>

\* an assert! of a builder of the estimator fails
LipPanic ==
    /\ lip_panicked' = TRUE
    /\ UNCHANGED <<lip, lip_nbuilds, lip_ncalls, lip_last>>

\* mutant: delta is stored unchecked
with_delta_unchecked ==
    /\ CanBuildLip
    /\ \E delta \in LipDeltaValues :
          /\ delta_arg' = Some(delta)
          /\ LipBuilt([lip EXCEPT !.delta_lip = delta])
    /\ UNCHANGED epsilon_arg
    /\ UNCHANGED alm_vars
    /\ UNCHANGED fbs_vars

with_delta ==
    /\ CanBuildLip
    /\ \E delta \in LipDeltaValues :
          /\ delta_arg' = Some(delta)
          /\ IF PositiveF64(delta)
             THEN LipBuilt([lip EXCEPT !.delta_lip = delta])
             ELSE LipPanic
    /\ UNCHANGED epsilon_arg
    /\ UNCHANGED alm_vars
    /\ UNCHANGED fbs_vars

with_epsilon ==
    /\ CanBuildLip
    /\ \E epsilon \in LipEpsilonValues :
          /\ epsilon_arg' = Some(epsilon)
          /\ IF PositiveF64(epsilon)
             THEN LipBuilt([lip EXCEPT !.epsilon_lip = epsilon])
             ELSE LipPanic
    /\ UNCHANGED delta_arg
    /\ UNCHANGED alm_vars
    /\ UNCHANGED fbs_vars

get_function_value(l) == l.function_value_at_u

\* mutant: the function value is stored after u has been perturbed
EstimateRunValueAtPerturbed(l) ==
    Estimated(l, Perturbation(l),
              F([i \in 1..Len(l.u_decision_var) |->
                    AddF64(l.u_decision_var[i], Perturbation(l)[i])]))

(* estimate_local_lipschitz on the estimator l.  F is called twice and the *)
(* status it returns is dropped both times, so the statuses are not inputs *)
(* of the computation; F writes its value whatever status it returns.      *)
(* The f64 returned is norm_workspace / norm_h, carried as the two squared *)
(* norms.                                                                  *)
EstimateRun(l) ==
    Estimated(l, Perturbation(l), F(l.u_decision_var))

estimate_local_lipschitz ==
    /\ ~lip_panicked
    /\ lip_ncalls < MaxEstimates
    /\ \E r \in {EstimateRun(lip)} :
           /\ lip' = r.lip
           /\ \E status1 \in StatusValues, status2 \in StatusValues :
                 lip_last' = [ret |-> r.ret, status |-> <<status1, status2>>,
                              entry |-> lip, h |-> r.h]
    /\ lip_ncalls' = lip_ncalls + 1
    /\ UNCHANGED <<lip_nbuilds, lip_panicked, epsilon_arg, delta_arg>>
    /\ UNCHANGED alm_vars
    /\ UNCHANGED fbs_vars

InitLip ==
    /\ AlmInit(0, 0)
    /\ FbsInit
    /\ \E u \in LipPoints,
          function_value \in FunctionValueBuffers : LipInit(u, function_value)

NextLip ==
    \/ with_delta
    \/ with_epsilon
    \/ estimate_local_lipschitz

SpecLip == InitLip /\ [][NextLip]_vars

----------------------------------------------------------------------------
(* The forward-backward optimizer *)

FbsToleranceValues == {0, 10}          \* 0 and 1e-5, in units of 1e-6
MaxIterValues == {0, 1, 2}
\* max_duration, in ticks of the model's clock
FbsDurationValues == {0, 2, 1000}
\* the time one call of the engine's step takes, in ticks
StepTimeValues == {0, 1}
\* the status the cost function returns: 0 for success
CostStatusValues == {0, 1}

(* The engine's step returns true (keep going) until the call on which the *)
(* residual meets the tolerance, and false on that call.  converge_at is   *)
(* the number of that call, from 1; 0 stands for a residual that does not  *)
(* meet the tolerance within the calls one solve can make.                 *)
ConvergeAtValues == {0, 1, 2, 3, MAX_ITER, MAX_ITER + 1}

\* what the call_no-th call of the engine's step returns
EngineStep(converge_at, call_no) == ~(converge_at # 0 /\ call_no >= converge_at)

CanBuildFbs == ~fbs_panicked /\ fbs_nbuilds < MaxFbsBuilds

FbsBuilt(newFbs) ==
    /\ fbs' = newFbs
    /\ fbs_nbuilds' = fbs_nbuilds + 1
    /\ UNCHANGED <<fbs_nsolves, fbs_last, fbs_panicked>>
    /\ UNCHANGED <<alm_vars, lip_vars>>

FbsPanic ==
    /\ fbs_panicked' = TRUE
    /\ UNCHANGED <<fbs, fbs_nbuilds, fbs_nsolves, fbs_last>>
    /\ UNCHANGED <<alm_vars, lip_vars>>

with_tolerance ==
    /\ CanBuildFbs
    /\ \E tolerance \in FbsToleranceValues :
          IF tolerance > 0
          THEN FbsBuilt([fbs EXCEPT !.tolerance = tolerance])
          ELSE FbsPanic

with_max_iter ==
    /\ CanBuildFbs
    /\ \E max_iter \in MaxIterValues :
          FbsBuilt([fbs EXCEPT !.max_iter = max_iter])

with_max_duration_fbs ==
    /\ CanBuildFbs
    /\ \E max_duration \in FbsDurationValues :
          FbsBuilt([fbs EXCEPT !.max_duration = Some(max_duration)])

\* the first conjunct of the loop condition that fails on the call_no-th
\* evaluation, made with num_iter = call_no - 1 and once the engine's step
\* has been called call_no times; "none" if the condition holds
FailingConjunct(o, converge_at, step_time, call_no) ==
    LET num_iter == call_no - 1
        elapsed == call_no * step_time
    IN  IF ~EngineStep(converge_at, call_no) THEN "step"
        ELSE IF ~(num_iter < o.max_iter) THEN "max_iter"
        ELSE IF o.max_duration.some /\ ~(o.max_duration.v <= elapsed)
             THEN "max_duration"
        ELSE "none"

(* The loop of solve: the condition is evaluated left to right, each       *)
(* evaluation calls the engine's step once, and the clock reads step_time  *)
(* ticks more after each call.  The loop ends at the first evaluation on   *)
(* which a conjunct fails, which is no later than evaluation max_iter + 1. *)
FbsLoop(o, converge_at, step_time) ==
    LET Fails(k) == FailingConjunct(o, converge_at, step_time, k) # "none"
        last == CHOOSE k \in 1..(o.max_iter + 1) :
                    Fails(k) /\ \A j \in 1..(k - 1) : ~Fails(j)
    IN  [num_iter |-> last - 1,
         calls |-> last,
         elapsed |-> last * step_time,
         exit |-> FailingConjunct(o, converge_at, step_time, last)]

\* the SolverStatus that solve builds after its loop
FbsStatus(o, loop) ==
    [converged |-> loop.num_iter < o.max_iter,
     num_iter |-> loop.num_iter,
     solve_time |-> loop.elapsed]

fbs_solve ==
    /\ ~fbs_panicked
    /\ fbs_nsolves < MaxFbsSolves
    /\ \E converge_at \in ConvergeAtValues, step_time \in StepTimeValues,
          cost_status \in CostStatusValues :
          LET loop == FbsLoop(fbs, converge_at, step_time)
          IN  /\ fbs_last' = [done |-> TRUE,
                              entry |-> fbs,
                              converge_at |-> converge_at,
                              step_time |-> step_time,
                              cost_status |-> cost_status,
                              loop |-> loop,
                              status |-> IF cost_status = 0
                                         THEN Some(FbsStatus(fbs, loop))
                                         ELSE None]
              /\ fbs_panicked' = (cost_status # 0)
    /\ fbs_nsolves' = fbs_nsolves + 1
    /\ UNCHANGED <<fbs, fbs_nbuilds>>
    /\ UNCHANGED <<alm_vars, lip_vars>>

InitFbs ==
    /\ AlmInit(0, 0)
    /\ LipInit(ZerosF64(LipDim), ZerosF64(LipDim))
    /\ FbsInit

NextFbs ==
    \/ with_tolerance
    \/ with_max_iter
    \/ with_max_duration_fbs
    \/ fbs_solve

SpecFbs == InitFbs /\ [][NextFbs]_vars

----------------------------------------------------------------------------
(* Reading the state *)

\* the penalty c = xi[0] of a cache whose xi is present
Penalty(cache) == cache.xi.v[1]

\* the inner AKKT tolerance held in the inner-solver cache
EpsInner(cache) == cache.panoc_cache.akkt_tolerance.v

\* the most recent step reached its termination test
Tested == last_step.ret \in {"CONTINUE", "STOP"}

\* the cache is as AlmCache::new(panoc_cache, n1, n2) built it, but for the
\* inner tolerance
FreshCache(cache, n1, n2) ==
    [cache EXCEPT !.panoc_cache = PanocCacheNew] = AlmCacheNew(n1, n2)

\* x <= c * r and x < c * r for a rational r
LeqTimes(x, c, r) == x * r.d <= c * r.n
LessTimes(x, c, r) == x * r.d < c * r.n

----------------------------------------------------------------------------
(* C1: for a problem with n1 > 0, after any builder calls and any number   *)
(* of steps, the penalty xi[0] is strictly positive and xi has length      *)
(* 1 + n1.                                                                 *)
C1_PenaltyPositive ==
    alm_problem.n1 > 0 =>
        /\ alm_cache.xi.some
        /\ Len(alm_cache.xi.v) = 1 + alm_problem.n1
        /\ Penalty(alm_cache) > 0

(* C2: across the steps of one optimizer the inner tolerance never         *)
(* increases from one step to the next and is never below the configured   *)
(* target epsilon_tolerance.                                               *)
C2_InnerToleranceMonotone ==
    last_step.ret # "none" =>
        /\ EpsInner(last_step.exit) <= EpsInner(last_step.entry)
        /\ EpsInner(last_step.exit) >= last_step.opt.epsilon_tolerance

(* C3: a step returns STOP if and only if delta_y_norm_plus <= c * delta   *)
(* (true when xi is absent) and f2_norm_plus <= delta, with delta the      *)
(* configured delta_tolerance in both conditions.                          *)
C3_StopIffBothWithinDelta ==
    Tested =>
        LET t == last_step.test
            crit1 == IF t.xi.some
                     THEN LeqTimes(t.delta_y_norm_plus, Penalty(t), last_step.opt.delta_tolerance)
                     ELSE TRUE
            crit2 == LeqTimes(t.f2_norm_plus, 1, last_step.opt.delta_tolerance)
        IN  (last_step.ret = "STOP") <=> (crit1 /\ crit2)

(* C4: solve returns only when a step returned STOP, the iteration counter *)
(* reached max_outer_iterations, the time budget max_duration (when set)   *)
(* ran out, or an oracle failed; after a step that returns CONTINUE with   *)
(* no cap reached it performs another step instead of returning.           *)
C4_SolveLoopsUntilDone ==
    solve_ret # "none" =>
        \/ last_step.ret = "STOP"
        \/ last_step.ret = "ERR"
        \/ last_step.exit.iteration >= last_step.opt.max_outer_iterations
        \/ last_step.opt.max_duration.some

(* C5: when an oracle fails during a solve, solve returns that error;      *)
(* solve returns Ok only when no oracle failed.                            *)
C5_SolvePropagatesOracleError ==
    solve_ret = "Ok" => last_step.ret # "ERR"

(* C6: after every step that returns CONTINUE, the cache field f2_norm     *)
(* equals the PM infeasibility f2_norm_plus measured in that step.         *)
C6_F2NormIsLatestMeasurement ==
    last_step.ret = "CONTINUE" =>
        last_step.exit.f2_norm = last_step.test.f2_norm_plus

(* C7 as stated: after every step that completes without an oracle error   *)
(* (CONTINUE or STOP), delta_y_norm equals the delta_y_norm_plus this step *)
(* computed.                                                               *)
C7_DeltaYNormAfterEveryStep ==
    Tested =>
        last_step.exit.delta_y_norm = last_step.test.delta_y_norm_plus

(* C7 amended: after every step that returns CONTINUE, delta_y_norm equals *)
(* the delta_y_norm_plus this step computed; a step that returns STOP      *)
(* leaves delta_y_norm as it was before the step.                          *)
C7_DeltaYNormAfterContinue ==
    /\ last_step.ret = "CONTINUE" =>
          last_step.exit.delta_y_norm = last_step.test.delta_y_norm_plus
    /\ last_step.ret = "STOP" =>
          last_step.exit.delta_y_norm = last_step.entry.delta_y_norm

\* a CONTINUE step that measured a positive ALM infeasibility, different
\* from the one stored before it
C7_Witness ==
    /\ last_step.ret = "CONTINUE"
    /\ last_step.prob.n1 > 0
    /\ last_step.test.delta_y_norm_plus > 0
    /\ last_step.entry.delta_y_norm # last_step.test.delta_y_norm_plus

\* the penalty stall criterion as the claim states it, on the cache as it
\* was at the termination test
StallHolds(t) ==
    \/ t.iteration = 0
    \/ LessTimes(t.delta_y_norm_plus, t.delta_y_norm, last_step.opt.sufficient_decrease_coeff)
    \/ LessTimes(t.f2_norm_plus, t.f2_norm, last_step.opt.sufficient_decrease_coeff)

(* C8: in every step in which the penalty stall criterion holds            *)
(* (iteration == 0, or delta_y_norm_plus < theta * delta_y_norm, or        *)
(* f2_norm_plus < theta * f2_norm), c = xi[0] after the step equals c      *)
(* before the step.                                                        *)
C8_StallKeepsPenalty ==
    (Tested /\ last_step.exit.xi.some /\ StallHolds(last_step.test)) =>
        Penalty(last_step.exit) = Penalty(last_step.entry)

\* a later step that continues, with the stall criterion holding by a
\* sufficient decrease of the ALM infeasibility
C8_Witness ==
    /\ last_step.ret = "CONTINUE"
    /\ last_step.exit.xi.some
    /\ last_step.test.iteration > 0
    /\ LessTimes(last_step.test.delta_y_norm_plus, last_step.test.delta_y_norm,
                 last_step.opt.sufficient_decrease_coeff)
    /\ Penalty(last_step.exit) = Penalty(last_step.entry)

(* C9: after the first step on a freshly constructed cache, c = xi[0]      *)
(* equals its initial value, whatever infeasibilities the step measured.   *)
C9_FirstStepKeepsPenalty ==
    (nsteps = 1 /\ last_step.exit.xi.some) =>
        Penalty(last_step.exit) = Penalty(last_step.entry)

\* a first step that measured both infeasibilities positive and continues
C9_Witness ==
    /\ nsteps = 1
    /\ last_step.exit.xi.some
    /\ last_step.ret = "CONTINUE"
    /\ last_step.entry.iteration = 0
    /\ last_step.test.delta_y_norm_plus > 0
    /\ last_step.test.f2_norm_plus > 0
    /\ Penalty(last_step.exit) = Penalty(last_step.entry)

\* two successive non-terminating steps from a fresh cache, the second
\* starting where the first ended, in each of which neither infeasibility
\* decreased by the factor theta (the first step is compared with the
\* zeros of the fresh cache)
TwoStepsWithoutDecrease ==
    /\ nsteps = 2
    /\ last_step.chained
    /\ last_step.exit.xi.some
    /\ prev_step.ret = "CONTINUE"
    /\ last_step.ret = "CONTINUE"
    /\ ~LessTimes(prev_step.delta_y_norm_plus, 0, last_step.opt.sufficient_decrease_coeff)
    /\ ~LessTimes(prev_step.f2_norm_plus, 0, last_step.opt.sufficient_decrease_coeff)
    /\ ~LessTimes(last_step.test.delta_y_norm_plus, prev_step.delta_y_norm_plus,
                  last_step.opt.sufficient_decrease_coeff)
    /\ ~LessTimes(last_step.test.f2_norm_plus, prev_step.f2_norm_plus,
                  last_step.opt.sufficient_decrease_coeff)

(* C10 as stated: starting from a fresh cache, after two successive        *)
(* non-terminating steps in each of which neither infeasibility decreased  *)
(* by the factor theta, c equals rho squared times its initial value.      *)
C10_TwoStepsRhoSquared ==
    TwoStepsWithoutDecrease =>
        Penalty(last_step.exit) = last_step.opt.penalty_update_factor * last_step.opt.penalty_update_factor
                                * Penalty(prev_step)

(* C10 amended: starting from a fresh cache, after two successive          *)
(* non-terminating steps in each of which neither infeasibility decreased  *)
(* by the factor theta, c equals rho times its initial value (the first    *)
(* step never changes c).                                                  *)
C10_TwoStepsRhoOnce ==
    TwoStepsWithoutDecrease =>
        Penalty(last_step.exit) = last_step.opt.penalty_update_factor * Penalty(prev_step)

\* two such steps with the default rho, after which c is 5 times the
\* initial penalty
C10_Witness ==
    /\ TwoStepsWithoutDecrease
    /\ last_step.opt.penalty_update_factor = DEFAULT_PENALTY_UPDATE_FACTOR
    /\ last_step.test.delta_y_norm_plus > 0
    /\ Penalty(last_step.exit) # Penalty(prev_step)

----------------------------------------------------------------------------
(* C11: the iteration counter increases by exactly one in every step that  *)
(* returns CONTINUE and is left unchanged by a step that returns STOP or   *)
(* fails with an oracle error; it never decreases.                         *)
C11_IterationCountsContinues ==
    last_step.ret # "none" =>
        /\ last_step.ret = "CONTINUE" =>
              last_step.exit.iteration = last_step.entry.iteration + 1
        /\ last_step.ret \in {"STOP", "ERR"} =>
              last_step.exit.iteration = last_step.entry.iteration
        /\ last_step.exit.iteration >= last_step.entry.iteration

\* a step that stops or fails after a step that continued
C11_Witness ==
    /\ nsteps = 2
    /\ last_step.ret \in {"STOP", "ERR"}
    /\ last_step.entry.iteration = 1
    /\ last_step.exit.iteration = 1

(* C12: for a problem with n1 = 0 and n2 = 0 on a fresh cache, solve       *)
(* performs exactly one inner solve (one step, which converges unless the  *)
(* inner solve fails) and returns with delta_y_norm = 0 and f2_norm = 0.   *)
C12_NoOpAlm ==
    ( /\ nsteps = 1
      /\ last_step.prob = AlmProblemNew(0, 0)
      /\ \E n1 \in Dimensions, n2 \in Dimensions :
            FreshCache(last_step.entry, n1, n2) ) =>
        /\ solve_ret = "Ok"
        /\ last_step.fail = "none" => last_step.ret = "STOP"
        /\ last_step.exit.iteration = 0
        /\ last_step.exit.delta_y_norm = 0
        /\ last_step.exit.f2_norm = 0
        /\ last_step.exit.delta_y_norm_plus = 0
        /\ last_step.exit.f2_norm_plus = 0

\* the first solve of a problem with no ALM and no PM constraints, whose
\* inner solve succeeded
C12_Witness ==
    /\ nsteps = 1
    /\ last_step.prob = AlmProblemNew(0, 0)
    /\ FreshCache(last_step.entry, 0, 0)
    /\ solve_ret = "Ok"
    /\ last_step.fail = "none"
    /\ last_step.ret = "STOP"

\* the most recent step ran the multiplier update
UpdatedMultipliers ==
    /\ last_step.ret # "none"
    /\ last_step.fail \notin {"inner", "f1"}
    /\ CallsF1(last_step.entry, last_step.prob)

(* C13: for every c > 0 and every u with F1(u) in C, the multiplier update *)
(* applied with y = 0 produces y_plus = 0.                                 *)
C13_MultiplierIdempotence ==
    ( /\ UpdatedMultipliers
      /\ Penalty(last_step.test) > 0
      /\ Tail1(last_step.test.xi.v) = Zeros(last_step.prob.n1)
      /\ InC(last_step.test.w_alm_aux.v) ) =>
        last_step.test.y_plus.v = Zeros(last_step.prob.n1)

\* such an update with F1(u) a nonzero point of C and a penalty above 1
C13_Witness ==
    /\ UpdatedMultipliers
    /\ Penalty(last_step.test) > 1
    /\ Tail1(last_step.test.xi.v) = Zeros(last_step.prob.n1)
    /\ InC(last_step.test.w_alm_aux.v)
    /\ last_step.test.w_alm_aux.v # Zeros(last_step.prob.n1)
    /\ last_step.test.y_plus.v = Zeros(last_step.prob.n1)

(* C14: calling project_on_set_y twice in a row leaves the cache as        *)
(* calling it once does; only xi[1..] may change and xi[0] = c is          *)
(* untouched.  Checked on the cache every step starts from; the step's     *)
(* own projection is the first call.                                       *)
C14_ProjectionIdempotence ==
    last_step.ret # "none" =>
        LET before == last_step.entry
            once == project_on_set_y(before, last_step.prob)
            twice == project_on_set_y(once, last_step.prob)
        IN  /\ twice = once
            /\ once = [before EXCEPT !.xi = once.xi]
            /\ before.xi.some =>
                  /\ once.xi.some
                  /\ Len(once.xi.v) = Len(before.xi.v)
                  /\ Penalty(once) = Penalty(before)
                  /\ last_step.prob.alm_set_y =>
                        \A i \in 1..Len(Tail1(once.xi.v)) :
                            /\ -YRadius <= Tail1(once.xi.v)[i]
                            /\ Tail1(once.xi.v)[i] <= YRadius
                  /\ Tail1(last_step.test.xi.v) = Tail1(once.xi.v)

\* a step that started with multipliers outside Y, so that the projection
\* moved y
C14_Witness ==
    /\ last_step.ret # "none"
    /\ last_step.entry.xi.some
    /\ project_on_set_y(last_step.entry, last_step.prob).xi # last_step.entry.xi
    /\ Tail1(last_step.test.xi.v) # Tail1(last_step.entry.xi.v)

(* C15: the first inner solve of an optimizer runs with eps_inner equal to *)
(* the configured starting tolerance epsilon_inner_initial (0.1 by         *)
(* default, or the value given to with_initial_inner_tolerance).           *)
C15_FirstInnerSolveUsesInitialTolerance ==
    nsteps = 1 =>
        EpsInner(last_step.entry) = last_step.opt.epsilon_inner_initial

(* C16: a non-positive factor passed to a builder is rejected at builder   *)
(* time, so no step ever runs with a non-positive rho, beta or theta.      *)
C16_NoStepWithNonPositiveFactor ==
    last_step.ret # "none" =>
        /\ last_step.opt.penalty_update_factor > 0
        /\ last_step.opt.epsilon_update_factor.n > 0
        /\ last_step.opt.sufficient_decrease_coeff.n > 0

(* C17: with_initial_lagrange_multipliers called with a vector whose       *)
(* length differs from n1 panics and does not modify xi; it writes xi[1..] *)
(* only when the length equals n1.                                         *)
C17_WrongLengthPanics ==
    [][ nsteps' = nsteps =>
          /\ (panicked' /\ ~panicked) =>
                /\ alm_cache' = alm_cache
                /\ y_init_arg'.some
                /\ Len(y_init_arg'.v) # alm_problem.n1
          /\ (y_init_arg' # y_init_arg /\ Len(y_init_arg'.v) # alm_problem.n1) =>
                /\ panicked'
                /\ alm_cache' = alm_cache
          /\ (y_init_arg' # y_init_arg /\ Len(y_init_arg'.v) = alm_problem.n1) =>
                /\ ~panicked'
                /\ alm_cache.xi.some =>
                      /\ Tail1(alm_cache'.xi.v) = y_init_arg'.v
                      /\ Penalty(alm_cache') = Penalty(alm_cache)
          /\ (alm_cache.xi.some /\ Tail1(alm_cache'.xi.v) # Tail1(alm_cache.xi.v)) =>
                /\ y_init_arg'.some
                /\ Len(y_init_arg'.v) = alm_problem.n1
                /\ Tail1(alm_cache'.xi.v) = y_init_arg'.v
      ]_vars

\* a call with a vector of the wrong length on a problem with n1 > 0 has
\* panicked, after the penalty was seeded, and xi holds that penalty and
\* the initial multipliers
C17_Witness ==
    /\ panicked
    /\ alm_problem.n1 > 0
    /\ y_init_arg.some
    /\ Len(y_init_arg.v) # alm_problem.n1
    /\ c0_arg.some
    /\ alm_cache.xi.v = <<c0_arg.v>> \o Zeros(alm_problem.n1)

\* xi as the seeding builders found it: as the most recent step left it,
\* or as the cache was built
SeedBase ==
    IF last_step.ret = "none"
    THEN AlmCacheNew(alm_problem.n1, alm_problem.n2).xi
    ELSE last_step.exit.xi

(* C18: for a problem with n1 > 0, with_initial_penalty(c0) sets xi[0] to  *)
(* c0 and leaves xi[1..] unchanged, with_initial_lagrange_multipliers(y0)  *)
(* sets xi[1..] to y0 and leaves xi[0] unchanged; applied in either order  *)
(* the result is xi = [c0, y0].  Whichever of the two was called since xi  *)
(* was last written by a step has set its part, and the rest is as it was. *)
C18_SettersAreIndependent ==
    (alm_problem.n1 > 0 /\ ~panicked) =>
        /\ alm_cache.xi.some
        /\ Penalty(alm_cache) =
              IF c0_arg.some THEN c0_arg.v ELSE SeedBase.v[1]
        /\ Tail1(alm_cache.xi.v) =
              IF y_init_arg.some THEN y_init_arg.v ELSE Tail1(SeedBase.v)

\* both setters were called after a step, with a penalty and multipliers
\* that differ from the ones the step left
C18_Witness ==
    /\ alm_problem.n1 > 0
    /\ nsteps > 0
    /\ ~panicked
    /\ c0_arg.some
    /\ y_init_arg.some
    /\ c0_arg.v # SeedBase.v[1]
    /\ y_init_arg.v # Tail1(SeedBase.v)
    /\ alm_cache.xi.v = <<c0_arg.v>> \o y_init_arg.v

(* C19: configuring the Lipschitz estimator with epsilon <= 0             *)
(* (with_epsilon) or delta <= 0 (with_delta) is rejected by a panic, so    *)
(* estimate_local_lipschitz never runs with a non-positive epsilon or      *)
(* delta.                                                                  *)
C19_NonPositivePerturbationPanics ==
    /\ (epsilon_arg.some /\ ~PositiveF64(epsilon_arg.v)) => lip_panicked
    /\ (delta_arg.some /\ ~PositiveF64(delta_arg.v)) => lip_panicked
    /\ lip_panicked =>
          \/ epsilon_arg.some /\ ~PositiveF64(epsilon_arg.v)
          \/ delta_arg.some /\ ~PositiveF64(delta_arg.v)
    /\ PositiveF64(lip.epsilon_lip)
    /\ PositiveF64(lip.delta_lip)
    /\ lip_last.ret.kind # "none" =>
          /\ PositiveF64(lip_last.entry.epsilon_lip)
          /\ PositiveF64(lip_last.entry.delta_lip)
          /\ \A i \in 1..LipDim :
                ~LessF64(lip_last.h[i], lip_last.entry.delta_lip)

\* with_delta panicked on delta <= 0 after with_epsilon had accepted a
\* positive epsilon, and the estimator keeps the previous delta
C19_Witness ==
    /\ lip_panicked
    /\ delta_arg.some
    /\ ~PositiveF64(delta_arg.v)
    /\ epsilon_arg.some
    /\ lip.epsilon_lip = epsilon_arg.v
    /\ lip.delta_lip = LiteralF64(1, 1000000)

(* C20: if F reports failure (a non-zero status) on either of the two      *)
(* evaluations made by estimate_local_lipschitz, the failure is propagated *)
(* to the caller as an evaluation error and no numeric estimate is         *)
(* returned.                                                               *)
C20_FailureOfFIsPropagated ==
    ( /\ lip_last.ret.kind # "none"
      /\ \E i \in 1..2 : lip_last.status[i] # 0 ) =>
        lip_last.ret.kind = "Err"

(* C21: after estimate_local_lipschitz, get_function_value returns F      *)
(* evaluated at the point u the call started from, not at the perturbed    *)
(* point u + h; before the first call it returns the buffer the caller     *)
(* passed to new, as the caller filled it.                                 *)
C21_FunctionValueAtOriginalPoint ==
    /\ lip_last.ret.kind = "none" =>
          get_function_value(lip) \in FunctionValueBuffers
    /\ lip_last.ret.kind # "none" =>
          /\ get_function_value(lip) = F(lip_last.entry.u_decision_var)
          /\ F(lip.u_decision_var) # F(lip_last.entry.u_decision_var) =>
                get_function_value(lip) # F(lip.u_decision_var)

\* the second estimate on the same estimator: u was perturbed twice and
\* the stored value is F at the point the second call started from
C21_Witness ==
    /\ lip_ncalls = 2
    /\ lip_last.ret.kind = "f64"
    /\ lip_last.status = <<0, 0>>
    /\ lip_last.entry.u_decision_var # lip.u_decision_var
    /\ get_function_value(lip) = F(lip_last.entry.u_decision_var)
    /\ get_function_value(lip) # F(lip.u_decision_var)
    /\ get_function_value(lip) # lip_last.entry.function_value_at_u

(* C22: in every step that returns CONTINUE and in which the penalty      *)
(* stall criterion does not hold, c = xi[0] after the step equals rho      *)
(* (penalty_update_factor) times c before the step, and xi[1..] is not     *)
(* changed by the penalty update.                                          *)
C22_PenaltyUpdateMultipliesByRho ==
    ( /\ last_step.ret = "CONTINUE"
      /\ last_step.exit.xi.some
      /\ ~StallHolds(last_step.test) ) =>
        /\ Penalty(last_step.exit) = last_step.opt.penalty_update_factor * Penalty(last_step.entry)
        /\ Tail1(last_step.exit.xi.v) = Tail1(last_step.test.xi.v)
        /\ Len(last_step.exit.xi.v) = Len(last_step.entry.xi.v)

\* a step that continued without a stall, on nonzero multipliers, and
\* changed the penalty
C22_Witness ==
    /\ last_step.ret = "CONTINUE"
    /\ last_step.exit.xi.some
    /\ ~StallHolds(last_step.test)
    /\ last_step.prob.n1 > 0
    /\ Tail1(last_step.exit.xi.v) # Zeros(last_step.prob.n1)
    /\ Penalty(last_step.exit) # Penalty(last_step.entry)
    /\ Penalty(last_step.exit) = last_step.opt.penalty_update_factor * Penalty(last_step.entry)

(* C23: at the termination test of every step, f2_norm_plus is 0 when F2  *)
(* is absent and delta_y_norm_plus is 0 when n1 = 0, whatever values       *)
(* earlier steps on the same cache left in those fields.                   *)
C23_AbsentConstraintsMeasureZero ==
    Tested =>
        /\ ~last_step.prob.mapping_f2 => last_step.test.f2_norm_plus = 0
        /\ last_step.prob.n1 = 0 => last_step.test.delta_y_norm_plus = 0

(* C24 support: what every call of estimate_local_lipschitz does, whatever *)
(* the rounding: epsilon, delta > 0 and h_i = max(epsilon * u_i, delta),   *)
(* with the f64 product, so that h_i >= delta > 0.                         *)
PerturbedBy(i) ==
    LET before == lip_last.entry
        delta == before.delta_lip
    IN  /\ PositiveF64(delta)
        /\ PositiveF64(before.epsilon_lip)
        /\ ~LessF64(lip_last.h[i], delta)
        /\ \A product \in {MulF64(before.epsilon_lip,
                                  before.u_decision_var[i])} :
              lip_last.h[i] =
                 IF LessF64(delta, product) THEN product ELSE delta

\* the least f64 greater than the f64 x
NextUp(x) ==
    IF Len(x.mag) = 0
    THEN Exact(1, -1074)
    ELSE IF x.neg /\ x.mag = <<1>> /\ LastPlace(x) > -1074
         THEN ExactAdd(x, Exact(1, LastPlace(x) - 1))
         ELSE ExactAdd(x, Exact(1, LastPlace(x)))

\* the mantissa of the f64 x is even
EvenF64(x) == Len(x.mag) = 0 \/ x.e > LastPlace(x)

\* the square of x is more than half the least positive f64, so that the
\* f64 square of x is not 0
SquareIsPositive(x) == LessF64(Exact(1, -1075), ExactMul(x, x))

(* C24 as stated: each call of estimate_local_lipschitz replaces every     *)
(* component u_i by u_i + h_i with h_i = max(epsilon * u_i, delta); every  *)
(* h_i is at least delta > 0, the divisor norm(h) is strictly positive and *)
(* every component of u strictly increases on each call.                   *)
C24_EveryComponentIncreases ==
    lip_last.ret.kind # "none" =>
        /\ PositiveF64(lip_last.ret.norm_h_sq)
        /\ \A i \in 1..LipDim :
              /\ PerturbedBy(i)
              /\ LessF64(lip_last.entry.u_decision_var[i],
                         lip.u_decision_var[i])

(* C24 amended: each call replaces every component u_i by the f64 sum of   *)
(* u_i and h_i = max(epsilon * u_i, delta) >= delta > 0.  No component of  *)
(* u decreases: with g the distance from u_i to the next f64 above it, u_i *)
(* strictly increases when h_i > g / 2, is unchanged when h_i < g / 2, and *)
(* when h_i = g / 2 becomes the one of u_i and its neighbour that has the  *)
(* even mantissa.  The divisor norm(h) is strictly positive when the       *)
(* square of delta does not underflow (delta^2 > 2^-1075).                 *)
C24_NoComponentDecreases ==
    lip_last.ret.kind # "none" =>
        /\ SquareIsPositive(lip_last.entry.delta_lip) =>
              PositiveF64(lip_last.ret.norm_h_sq)
        /\ \A i \in 1..LipDim :
              LET s == lip_last.entry.u_decision_var[i]
                  t == lip.u_decision_var[i]
                  h == lip_last.h[i]
              IN  /\ PerturbedBy(i)
                  /\ ~LessF64(t, s)
                  /\ \A up \in {NextUp(s)}, twice_h \in {ExactAdd(h, h)} :
                        \A g \in {ExactSub(up, s)} :
                           /\ LessF64(g, twice_h) => LessF64(s, t)
                           /\ LessF64(twice_h, g) => t = s
                           /\ twice_h = g => t \in {s, up} /\ EvenF64(t)

\* the second estimate of a run, on a point with one component perturbed
\* by epsilon * u_i > delta, one perturbed by delta and rounded up to the
\* next f64, which is not the sum, and one left unchanged by a delta
\* between 2^-55 and 2^-52 times its magnitude
C24_Witness ==
    /\ lip_ncalls = 2
    /\ lip_last.ret.kind = "f64"
    /\ PositiveF64(lip_last.ret.norm_h_sq)
    /\ \E i \in 1..LipDim :
          /\ LessF64(lip_last.entry.delta_lip, lip_last.h[i])
          /\ LessF64(lip_last.entry.u_decision_var[i], lip.u_decision_var[i])
    /\ \E i \in 1..LipDim :
          /\ lip_last.h[i] = lip_last.entry.delta_lip
          /\ lip.u_decision_var[i] = NextUp(lip_last.entry.u_decision_var[i])
          /\ lip.u_decision_var[i] #
                ExactAdd(lip_last.entry.u_decision_var[i], lip_last.h[i])
    /\ \E i \in 1..LipDim :
          /\ lip_last.h[i] = lip_last.entry.delta_lip
          /\ lip.u_decision_var[i] = lip_last.entry.u_decision_var[i]
          /\ ~LessF64(ExactMul(lip_last.h[i], Exact(1, 55)),
                      AbsF64(lip_last.entry.u_decision_var[i]))
          /\ LessF64(ExactMul(lip_last.h[i], Exact(1, 52)),
                     AbsF64(lip_last.entry.u_decision_var[i]))

(* C25: FBSOptimizer::solve reports converged = true exactly when the     *)
(* loop ended because the engine's step returned false, and converged =    *)
(* false exactly when it ended because the iteration cap max_iter was      *)
(* reached; the reported iteration count never exceeds max_iter.           *)
C25_ConvergedIffStepSignalled ==
    (fbs_last.done /\ fbs_last.status.some) =>
        /\ fbs_last.status.v.converged <=> (fbs_last.loop.exit = "step")
        /\ ~fbs_last.status.v.converged <=> (fbs_last.loop.exit = "max_iter")
        /\ fbs_last.status.v.num_iter <= fbs_last.entry.max_iter

(* C26: in one call of FBSOptimizer::solve the engine's step is invoked at *)
(* most max_iter times.                                                    *)
C26_AtMostMaxIterSteps ==
    fbs_last.done => fbs_last.loop.calls <= fbs_last.entry.max_iter

(* C27: when max_duration is set, solve keeps iterating (subject to        *)
(* convergence and max_iter) as long as the elapsed time is below          *)
(* max_duration and stops iterating once the elapsed time exceeds it; with *)
(* a max_duration that is never reached it performs the same steps as      *)
(* with no max_duration.                                                   *)
C27_MaxDurationBoundsTheLoop ==
    (fbs_last.done /\ fbs_last.entry.max_duration.some) =>
        LET o == fbs_last.entry
            loop == fbs_last.loop
            unlimited == FbsLoop([o EXCEPT !.max_duration = None],
                                 fbs_last.converge_at, fbs_last.step_time)
        IN  \* the loop is left for the time only once max_duration is reached
            /\ loop.exit = "max_duration" => loop.elapsed >= o.max_duration.v
            \* no evaluation made after max_duration was exceeded lets the
            \* loop go on
            /\ \A j \in 1..(loop.calls - 1) :
                  j * fbs_last.step_time <= o.max_duration.v
            \* a max_duration that is never reached changes nothing
            /\ unlimited.elapsed < o.max_duration.v =>
                  /\ loop.calls = unlimited.calls
                  /\ loop.num_iter = unlimited.num_iter

====
